---- MODULE Spec2Model ----
(***************************************************************************)
(* Incident lifecycle layer (src/src/incidencias.py) on top of the         *)
(* execution helpers of src/src/db.py.                                     *)
(*                                                                         *)
(* The persisted table `incidencias` is a sequence of rows; the id of a    *)
(* row is its position (ids are assigned by the store, rows are never      *)
(* deleted).  Every caller owns a session and runs one call at a time.  A  *)
(* call is two steps: the repository function validates its arguments and  *)
(* builds the statement (CrearIncidencia, AsignarTecnico,                  *)
(* CerrarIncidencia), then db.execute runs the statement as one atomic     *)
(* unit of the store (Execute).  Calls of different callers interleave     *)
(* between the two steps.  A listing call validates nothing: it is one     *)
(* step, the SELECT that db.fetch_all runs.                                *)
(*                                                                         *)
(* Spec      one caller, valid and invalid arguments, the listings         *)
(* ArgsSpec  one caller, every kind of invalid argument, a short table     *)
(* RaceSpec  two callers whose calls overlap, valid arguments              *)
(* QuerySpec one caller, valid arguments, the listings                     *)
(***************************************************************************)
EXTENDS Integers, Sequences, FiniteSets, TLC

VARIABLES incidencias, now, pc, call, result

vars == <<incidencias, now, pc, call, result>>

\* ----------------------------------------------------------------- bounds
MaxInc == 2          \* rows the table may hold (one caller)
MaxIncRace == 1      \* rows the table may hold (racing callers)
MaxIncArgs == 1      \* rows the table may hold (argument validation)
MaxIncQuery == 2     \* rows the table may hold (listings)
MaxTime == 2         \* last instant of the store's clock

\* ------------------------------------------------------------ value sets
NULL == 0            \* SQL NULL of tecnico_id / fecha_cierre (ids and instants are >= 1)

Prioridades == <<"baja", "media", "alta">>      \* prioridades_validas

\* An argument passed where an int is expected: isint is what
\* isinstance(x, int) answers, v the value when it is an int.
AnInt(n) == [isint |-> TRUE, v |-> n]
NotAnInt == [isint |-> FALSE, v |-> 0]

\* Descriptions are sequences of characters.
Whitespace == {" ", "\t"}

\* The arguments a sequential caller draws from.
Callers == {"c1"}
EquipoArgs == {NotAnInt, AnInt(0), AnInt(1), AnInt(2)}
DescArgs == { <<>>, <<" ", "\t">>, <<"a">>, <<" ", "a", "\t">> }
PrioridadArgs == {"baja", "media", "alta", "urgente"}
IncidenciaArgs == {NotAnInt, AnInt(0)} \cup {AnInt(n) : n \in 1 .. (MaxInc + 1)}
TecnicoArgs == {NotAnInt, AnInt(0), AnInt(1), AnInt(2)}

\* The arguments checked for validation: every kind of invalid one.
ArgsEquipoArgs == {NotAnInt, AnInt(-1), AnInt(0), AnInt(1)}
ArgsDescArgs == { <<>>, <<" ">>, <<"\t", " ">>, <<" ", "a", "\t">> }
ArgsPrioridadArgs == {"media", "alta", "urgente", "ALTA"}
ArgsIncidenciaArgs == {NotAnInt, AnInt(-1), AnInt(0)} \cup {AnInt(n) : n \in 1 .. MaxIncArgs}
ArgsTecnicoArgs == {NotAnInt, AnInt(-1), AnInt(0), AnInt(1)}

\* The arguments of the caller that lists what it wrote: valid ones, one
\* priority.
QueryEquipoArgs == {AnInt(1)}
QueryDescArgs == { <<"a">> }
QueryPrioridadArgs == {"alta"}
QueryIncidenciaArgs == {AnInt(n) : n \in 1 .. MaxIncQuery}
QueryTecnicoArgs == {AnInt(1)}

\* The arguments of the callers that race on the same rows: valid ones, the
\* priority left at its default.
Racers == {"c1", "c2"}
RaceEquipoArgs == {AnInt(1)}
RaceDescArgs == { <<"a">> }
RacePrioridadArgs == {"media"}
RaceIncidenciaArgs == {AnInt(n) : n \in 1 .. MaxIncRace}
RaceTecnicoArgs == {AnInt(1), AnInt(2)}

\* ------------------------------------------------------------ validation
\* str.strip(): drop leading and trailing whitespace
RECURSIVE lstrip(_)
lstrip(s) == IF s # <<>> /\ Head(s) \in Whitespace THEN lstrip(Tail(s)) ELSE s

RECURSIVE rstrip(_)
rstrip(s) == IF s # <<>> /\ s[Len(s)] \in Whitespace
             THEN rstrip(SubSeq(s, 1, Len(s) - 1)) ELSE s

strip(s) == rstrip(lstrip(s))

\* (variant: the bound test written x < 0)
IsPositiveInt_AllowZero(a) == a.isint /\ a.v >= 0

\* not (not isinstance(x, int) or x <= 0)
IsPositiveInt(a) == a.isint /\ a.v > 0

\* not (not descripcion or not descripcion.strip())
IsNonBlank(d) == d # <<>> /\ strip(d) # <<>>

\* prioridad in prioridades_validas
IsPrioridad(p) == \E i \in DOMAIN Prioridades : Prioridades[i] = p

\* ------------------------------------------------------------ statements
\* (variant: the INSERT run twice)
InsertIncidencia_Twice(tabla, e, d, p, t) ==
    LET row == [equipo_id      |-> e,
                descripcion    |-> d,
                prioridad      |-> p,
                tecnico_id     |-> NULL,
                estado         |-> "abierta",
                fecha_apertura |-> t,
                fecha_cierre   |-> NULL]
    IN  Append(Append(tabla, row), row)

\* INSERT INTO incidencias (...) VALUES (%s, %s, %s, NULL, 'abierta', NOW(), NULL)
InsertIncidencia(tabla, e, d, p, t) ==
    Append(tabla, [equipo_id      |-> e,
                   descripcion    |-> d,
                   prioridad      |-> p,
                   tecnico_id     |-> NULL,
                   estado         |-> "abierta",
                   fecha_apertura |-> t,
                   fecha_cierre   |-> NULL])

\* (variant: WHERE id = %s, the state guard left out)
GuardCerrada_IdOnly(tabla, id) == {i \in DOMAIN tabla : i = id}

\* rows selected by  WHERE id = %s AND estado != 'cerrada'
GuardCerrada(tabla, id) == {i \in DOMAIN tabla : i = id /\ tabla[i].estado # "cerrada"}

\* (variant: the UPDATE of asignar_tecnico without AND estado != 'cerrada')
UpdateAsignar_NoGuard(tabla, id, tec) ==
    [i \in DOMAIN tabla |->
        IF i = id
        THEN [tabla[i] EXCEPT !.tecnico_id = tec, !.estado = "en_proceso"]
        ELSE tabla[i]]

\* (variant: the UPDATE of asignar_tecnico without estado = 'en_proceso')
UpdateAsignar_KeepEstado(tabla, id, tec) ==
    [i \in DOMAIN tabla |->
        IF i \in GuardCerrada(tabla, id)
        THEN [tabla[i] EXCEPT !.tecnico_id = tec]
        ELSE tabla[i]]

\* UPDATE incidencias SET tecnico_id = %s, estado = 'en_proceso' WHERE ...
UpdateAsignar(tabla, id, tec) ==
    [i \in DOMAIN tabla |->
        IF i \in GuardCerrada(tabla, id)
        THEN [tabla[i] EXCEPT !.tecnico_id = tec, !.estado = "en_proceso"]
        ELSE tabla[i]]

\* (variant: the UPDATE of cerrar_incidencia without fecha_cierre = NOW())
UpdateCerrar_NoFecha(tabla, id, t) ==
    [i \in DOMAIN tabla |->
        IF i \in GuardCerrada(tabla, id)
        THEN [tabla[i] EXCEPT !.estado = "cerrada"]
        ELSE tabla[i]]

\* (variant: the UPDATE of cerrar_incidencia also sets tecnico_id = NULL)
UpdateCerrar_ClearTecnico(tabla, id, t) ==
    [i \in DOMAIN tabla |->
        IF i \in GuardCerrada(tabla, id)
        THEN [tabla[i] EXCEPT !.estado = "cerrada", !.fecha_cierre = t,
                              !.tecnico_id = NULL]
        ELSE tabla[i]]

\* (variant: the UPDATE of cerrar_incidencia also sets fecha_apertura = NOW())
UpdateCerrar_ResetApertura(tabla, id, t) ==
    [i \in DOMAIN tabla |->
        IF i \in GuardCerrada(tabla, id)
        THEN [tabla[i] EXCEPT !.estado = "cerrada", !.fecha_cierre = t,
                              !.fecha_apertura = t]
        ELSE tabla[i]]

\* UPDATE incidencias SET estado = 'cerrada', fecha_cierre = NOW() WHERE ...
UpdateCerrar(tabla, id, t) ==
    [i \in DOMAIN tabla |->
        IF i \in GuardCerrada(tabla, id)
        THEN [tabla[i] EXCEPT !.estado = "cerrada", !.fecha_cierre = t]
        ELSE tabla[i]]

\* cursor.rowcount after an UPDATE: the rows the statement changed, or the
\* rows its WHERE matched when the session was opened with CLIENT_FOUND_ROWS.
\* The session is handed in by the caller, so both are possible.
RowCounts(old, new, matched) ==
    { Cardinality({i \in matched : new[i] # old[i]}), Cardinality(matched) }

\* --------------------------------------------------------------- queries
\* The tables the join reads, kept by others: equipos(id, tipo, modelo,
\* ubicacion, estado) and tecnicos(id, nombre), id their key.  No equipment
\* has id 2 and no technician has id 2.
Equipos == [e \in {1} |->
              [tipo |-> "pc", modelo |-> "m1", ubicacion |-> "aula", estado |-> "operativo"]]
Tecnicos == [t \in {1} |-> [nombre |-> "ana"]]

NullNombre == "(NULL)"      \* SQL NULL of t.nombre

\* CASE prioridad WHEN 'alta' THEN 1 WHEN 'media' THEN 2 WHEN 'baja' THEN 3 END
CasePrioridad(p) == CASE p = "alta" -> 1 [] p = "media" -> 2 [] p = "baja" -> 3

\* The place of an estado in the column's collation: the lexical order of
\* the three values.
EstadoCollation(e) == CASE e = "abierta" -> 1 [] e = "cerrada" -> 2 [] e = "en_proceso" -> 3

\* The rows of S, each once, in every arrangement.  ORDER BY keeps the
\* arrangements that put no row after one it sorts before; rows that tie
\* come in any order.
Arrangements(S) ==
    {s \in [1 .. Cardinality(S) -> S] : \A i, j \in DOMAIN s : i < j => s[i] # s[j]}

\* SELECT *: the row of id i, its id first
Fila(tabla, i) == [id |-> i] @@ tabla[i]

\* ORDER BY CASE prioridad ... END, fecha_apertura ASC
ActivasBefore(a, b) ==
    \/ CasePrioridad(a.prioridad) < CasePrioridad(b.prioridad)
    \/ /\ CasePrioridad(a.prioridad) = CasePrioridad(b.prioridad)
       /\ a.fecha_apertura < b.fecha_apertura

\* SELECT * FROM incidencias WHERE estado != 'cerrada' ORDER BY ...
SelectActivas(tabla) ==
    {s \in Arrangements({Fila(tabla, i) :
                            i \in {j \in DOMAIN tabla : tabla[j].estado # "cerrada"}}) :
        \A i, j \in DOMAIN s : i < j => ~ActivasBefore(s[j], s[i])}

\* ORDER BY fecha_apertura ASC
SinTecnicoBefore(a, b) == a.fecha_apertura < b.fecha_apertura

\* SELECT * FROM incidencias WHERE tecnico_id IS NULL AND estado != 'cerrada'
\* ORDER BY fecha_apertura ASC
SelectSinTecnico(tabla) ==
    {s \in Arrangements({Fila(tabla, i) :
                            i \in {j \in DOMAIN tabla : /\ tabla[j].tecnico_id = NULL
                                                        /\ tabla[j].estado # "cerrada"}}) :
        \A i, j \in DOMAIN s : i < j => ~SinTecnicoBefore(s[j], s[i])}

\* The row of incident i joined to its equipment and, when it has one, to
\* its technician.
FilaDetalle(tabla, i) ==
    LET inc == tabla[i]  e == Equipos[inc.equipo_id]
    IN  [id |-> i, descripcion |-> inc.descripcion, prioridad |-> inc.prioridad,
         estado |-> inc.estado, fecha_apertura |-> inc.fecha_apertura,
         fecha_cierre |-> inc.fecha_cierre,
         tipo |-> e.tipo, modelo |-> e.modelo, ubicacion |-> e.ubicacion,
         estado_equipo |-> e.estado,
         tecnico |-> IF inc.tecnico_id \in DOMAIN Tecnicos
                     THEN Tecnicos[inc.tecnico_id].nombre ELSE NullNombre]

\* ORDER BY i.estado, CASE i.prioridad ... END, i.fecha_apertura ASC
DetalleBefore(a, b) ==
    \/ EstadoCollation(a.estado) < EstadoCollation(b.estado)
    \/ /\ a.estado = b.estado
       /\ \/ CasePrioridad(a.prioridad) < CasePrioridad(b.prioridad)
          \/ /\ CasePrioridad(a.prioridad) = CasePrioridad(b.prioridad)
             /\ a.fecha_apertura < b.fecha_apertura

\* SELECT ... FROM incidencias i JOIN equipos e ON i.equipo_id = e.id
\* LEFT JOIN tecnicos t ON i.tecnico_id = t.id ORDER BY ...
SelectDetalle(tabla) ==
    {s \in Arrangements({FilaDetalle(tabla, i) :
                            i \in {j \in DOMAIN tabla :
                                     tabla[j].equipo_id \in DOMAIN Equipos}}) :
        \A i, j \in DOMAIN s : i < j => ~DetalleBefore(s[j], s[i])}

\* ---------------------------------------------------------------- calls
\* A validated call waiting for its statement to run.  `before` is history:
\* the operations of other callers whose statement changed the same row
\* (affected_rows = 1) while this call was waiting.
NoCall == [op |-> "none", equipo_id |-> 0, descripcion |-> <<>>,
           prioridad |-> "media", incidencia_id |-> 0, tecnico_id |-> 0,
           before |-> {}]

\* What the last finished call of a caller did: how it ended (kind), the
\* value it returned, the local affected_rows of execute (-1 when never
\* assigned), the statement's fate, and the commit / rollback calls made on
\* the session.  `before` is the history the call gathered while waiting.
\* For a listing call, `rows` is the local results of fetch_all, which is
\* also the list handed back when the call returns.
NoResult == [op |-> "none", id |-> 0, kind |-> "none", value |-> 0,
             stmt |-> "none", affected_rows |-> -1,
             commits |-> 0, rollbacks |-> 0, cursor_closed |-> FALSE,
             before |-> {}, rows |-> <<>>]

Raised(op, exc) == [NoResult EXCEPT !.op = op, !.kind = exc]

Init ==
    /\ incidencias = <<>>
    /\ now = 1
    /\ pc = [c \in Racers |-> "idle"]
    /\ call = [c \in Racers |-> NoCall]
    /\ result = [c \in Racers |-> NoResult]

\* crear_incidencia(conn, equipo_id, descripcion, prioridad): validation, then
\* execute(conn, sql, (equipo_id, descripcion.strip(), prioridad))
CrearIncidenciaWith(c, e, d, p) ==
    /\ pc[c] = "idle"
    /\ IF IsPositiveInt(e) /\ IsNonBlank(d) /\ IsPrioridad(p)
       THEN /\ pc' = [pc EXCEPT ![c] = "execute"]
            /\ call' = [call EXCEPT ![c] =
                   [NoCall EXCEPT !.op = "crear", !.equipo_id = e.v,
                                  !.descripcion = d, !.prioridad = p]]
            /\ result' = [result EXCEPT ![c] = NoResult]
       ELSE /\ result' = [result EXCEPT ![c] = Raised("crear", "ValueError")]
            /\ UNCHANGED <<pc, call>>
    /\ UNCHANGED <<incidencias, now>>

CrearIncidencia(c, E, D, P) ==
    \E e \in E, d \in D, p \in P : CrearIncidenciaWith(c, e, d, p)

\* asignar_tecnico(conn, incidencia_id, tecnico_id)
AsignarTecnicoWith(c, i, t) ==
    /\ pc[c] = "idle"
    /\ IF IsPositiveInt(i) /\ IsPositiveInt(t)
       THEN /\ pc' = [pc EXCEPT ![c] = "execute"]
            /\ call' = [call EXCEPT ![c] =
                   [NoCall EXCEPT !.op = "asignar", !.incidencia_id = i.v,
                                  !.tecnico_id = t.v]]
            /\ result' = [result EXCEPT ![c] = NoResult]
       ELSE /\ result' = [result EXCEPT ![c] = Raised("asignar", "ValueError")]
            /\ UNCHANGED <<pc, call>>
    /\ UNCHANGED <<incidencias, now>>

AsignarTecnico(c, I, T) ==
    \E i \in I, t \in T : AsignarTecnicoWith(c, i, t)

\* cerrar_incidencia(conn, incidencia_id)
CerrarIncidenciaWith(c, i) ==
    /\ pc[c] = "idle"
    /\ IF IsPositiveInt(i)
       THEN /\ pc' = [pc EXCEPT ![c] = "execute"]
            /\ call' = [call EXCEPT ![c] =
                   [NoCall EXCEPT !.op = "cerrar", !.incidencia_id = i.v]]
            /\ result' = [result EXCEPT ![c] = NoResult]
       ELSE /\ result' = [result EXCEPT ![c] = Raised("cerrar", "ValueError")]
            /\ UNCHANGED <<pc, call>>
    /\ UNCHANGED <<incidencias, now>>

CerrarIncidencia(c, I) ==
    \E i \in I : CerrarIncidenciaWith(c, i)

\* Whether the name `logger` resolves in db.py: the module never imports or
\* assigns it, so evaluating logger.debug / logger.error raises NameError.
LoggerDefined == FALSE

\* The statement of the pending call k applied to the table at instant t:
\* <<table after the statement, the values cursor.rowcount may hold>>
Statement(tabla, k, t) ==
    CASE k.op = "crear" ->
            <<InsertIncidencia(tabla, k.equipo_id, strip(k.descripcion), k.prioridad, t), {1}>>
      [] k.op = "asignar" ->
            LET new == UpdateAsignar(tabla, k.incidencia_id, k.tecnico_id)
            IN  <<new, RowCounts(tabla, new, GuardCerrada(tabla, k.incidencia_id))>>
      [] k.op = "cerrar" ->
            LET new == UpdateCerrar(tabla, k.incidencia_id, t)
            IN  <<new, RowCounts(tabla, new, GuardCerrada(tabla, k.incidencia_id))>>

\* execute(): the try body when cursor.execute succeeds: commit, read
\* rowcount, logger.debug, return; finally closes the cursor.
ExecuteOk(k, n) ==
    [NoResult EXCEPT !.op = k.op, !.id = k.incidencia_id, !.before = k.before,
                     !.stmt = "ok", !.commits = 1, !.affected_rows = n,
                     !.cursor_closed = TRUE,
                     !.kind = IF LoggerDefined THEN "return" ELSE "NameError",
                     !.value = IF LoggerDefined THEN n ELSE 0]

\* execute(): cursor.execute raises mysql.connector.Error: the handler logs,
\* rolls back and re-raises; finally closes the cursor.
ExecuteError(k) ==
    [NoResult EXCEPT !.op = k.op, !.id = k.incidencia_id, !.before = k.before,
                     !.stmt = "error", !.cursor_closed = TRUE,
                     !.rollbacks = IF LoggerDefined THEN 1 ELSE 0,
                     !.kind = IF LoggerDefined THEN "StoreError" ELSE "NameError"]

IsUpdate(k) == k.op \in {"asignar", "cerrar"}

\* The waiting calls after caller c's statement k ran with rowcount n: c's
\* call is over, and the updates waiting on the same row note it when it
\* changed the row.
Noted(c, k, n) ==
    [d \in DOMAIN call |->
        IF d = c THEN NoCall
        ELSE IF /\ n = 1 /\ IsUpdate(k) /\ IsUpdate(call[d])
                /\ call[d].incidencia_id = k.incidencia_id
             THEN [call[d] EXCEPT !.before = @ \cup {k.op}]
             ELSE call[d]]

\* db.execute(conn, query, params) for the pending call of caller c.  The
\* store runs the statement atomically at its current instant, which never
\* goes back, or fails and changes nothing.
Execute(c, maxRows) ==
    /\ pc[c] = "execute"
    /\ pc' = [pc EXCEPT ![c] = "idle"]
    /\ \/ \E t \in now .. MaxTime :
            LET st == Statement(incidencias, call[c], t)
            IN  /\ Len(st[1]) <= maxRows
                /\ now' = t
                /\ incidencias' = st[1]
                /\ \E n \in st[2] :
                      /\ result' = [result EXCEPT ![c] = ExecuteOk(call[c], n)]
                      /\ call' = Noted(c, call[c], n)
       \/ /\ result' = [result EXCEPT ![c] = ExecuteError(call[c])]
          /\ call' = Noted(c, call[c], 0)
          /\ UNCHANGED <<incidencias, now>>

\* fetch_all(): the try body when cursor.execute succeeds: fetchall,
\* logger.debug, return; finally closes the cursor.
FetchAllOk(op, rows) ==
    [NoResult EXCEPT !.op = op, !.stmt = "ok", !.rows = rows,
                     !.cursor_closed = TRUE,
                     !.kind = IF LoggerDefined THEN "return" ELSE "NameError"]

\* fetch_all(): cursor.execute raises mysql.connector.Error: the handler
\* logs and re-raises; finally closes the cursor.
FetchAllError(op) ==
    [NoResult EXCEPT !.op = op, !.stmt = "error", !.cursor_closed = TRUE,
                     !.kind = IF LoggerDefined THEN "StoreError" ELSE "NameError"]

\* db.fetch_all(conn, query) for a listing of caller c: the store answers
\* the SELECT with one of the arrangements Q its ORDER BY allows, or fails.
FetchAll(c, op, Q) ==
    /\ pc[c] = "idle"
    /\ \/ \E rows \in Q : result' = [result EXCEPT ![c] = FetchAllOk(op, rows)]
       \/ result' = [result EXCEPT ![c] = FetchAllError(op)]
    /\ UNCHANGED <<incidencias, now, pc, call>>

\* listar_incidencias_activas(conn)
ListarIncidenciasActivas(c) ==
    FetchAll(c, "listar_activas", SelectActivas(incidencias))

\* listar_incidencias_sin_tecnico(conn)
ListarIncidenciasSinTecnico(c) ==
    FetchAll(c, "listar_sin_tecnico", SelectSinTecnico(incidencias))

\* detalle_incidencias_join(conn)
DetalleIncidenciasJoin(c) ==
    FetchAll(c, "detalle", SelectDetalle(incidencias))

\* One caller issuing calls one after the other, with any arguments.
Next ==
    \E c \in Callers :
        \/ CrearIncidencia(c, EquipoArgs, DescArgs, PrioridadArgs)
        \/ AsignarTecnico(c, IncidenciaArgs, TecnicoArgs)
        \/ CerrarIncidencia(c, IncidenciaArgs)
        \/ Execute(c, MaxInc)
        \/ ListarIncidenciasActivas(c)
        \/ ListarIncidenciasSinTecnico(c)
        \/ DetalleIncidenciasJoin(c)

Spec == Init /\ [][Next]_vars

\* One caller whose arguments may be invalid in every way, the valid ones
\* kept few.
ArgsNext ==
    \E c \in Callers :
        \/ CrearIncidencia(c, ArgsEquipoArgs, ArgsDescArgs, ArgsPrioridadArgs)
        \/ AsignarTecnico(c, ArgsIncidenciaArgs, ArgsTecnicoArgs)
        \/ CerrarIncidencia(c, ArgsIncidenciaArgs)
        \/ Execute(c, MaxIncArgs)

ArgsSpec == Init /\ [][ArgsNext]_vars

\* Several callers, each with a session of its own, whose calls overlap.
RaceNext ==
    \E c \in Racers :
        \/ CrearIncidencia(c, RaceEquipoArgs, RaceDescArgs, RacePrioridadArgs)
        \/ AsignarTecnico(c, RaceIncidenciaArgs, RaceTecnicoArgs)
        \/ CerrarIncidencia(c, RaceIncidenciaArgs)
        \/ Execute(c, MaxIncRace)

RaceSpec == Init /\ [][RaceNext]_vars

\* One caller that writes with valid arguments and lists what it wrote.
QueryNext ==
    \E c \in Callers :
        \/ CrearIncidencia(c, QueryEquipoArgs, QueryDescArgs, QueryPrioridadArgs)
        \/ AsignarTecnico(c, QueryIncidenciaArgs, QueryTecnicoArgs)
        \/ CerrarIncidencia(c, QueryIncidenciaArgs)
        \/ Execute(c, MaxIncQuery)
        \/ ListarIncidenciasActivas(c)
        \/ ListarIncidenciasSinTecnico(c)
        \/ DetalleIncidenciasJoin(c)

QuerySpec == Init /\ [][QueryNext]_vars

\* ======================================================================
\* Properties
\* ======================================================================
Rows == DOMAIN incidencias

\* The step in which execute() runs for caller c, and the one in which its
\* statement went through.
Executes(c) == pc[c] = "execute" /\ pc'[c] = "idle"
StatementRan(c) == Executes(c) /\ result'[c].stmt = "ok"

\* The call of caller c hands the count n back to its caller.
Returns(c, n) == result'[c].kind = "return" /\ result'[c].value = n

Open(tabla, id) == id \in DOMAIN tabla /\ tabla[id].estado \in {"abierta", "en_proceso"}

\* ---------------------------------------------------------------- C1
\* C1: in every reachable state, every incident has fecha_cierre non-null
\* if and only if its estado is 'cerrada'.
C1_FechaCierreIffCerrada ==
    \A i \in Rows :
        (incidencias[i].fecha_cierre # NULL) <=> (incidencias[i].estado = "cerrada")

\* An incident that was assigned and then closed, later than it was opened.
C1_Witness ==
    \E i \in Rows :
        /\ incidencias[i].estado = "cerrada"
        /\ incidencias[i].tecnico_id # NULL
        /\ incidencias[i].fecha_cierre > incidencias[i].fecha_apertura

\* ---------------------------------------------------------------- C2
EstadoRank(e) == CASE e = "abierta" -> 1 [] e = "en_proceso" -> 2 [] e = "cerrada" -> 3

\* C2: in every step, every incident stays, its estado stays or moves forward
\* in abierta -> en_proceso -> cerrada, and a 'cerrada' incident keeps every
\* field.
C2_EstadoMonotonic ==
    [][\A i \in Rows :
          /\ i \in DOMAIN incidencias'
          /\ EstadoRank(incidencias'[i].estado) >= EstadoRank(incidencias[i].estado)
          /\ (incidencias[i].estado = "cerrada" => incidencias'[i] = incidencias[i])
      ]_vars

\* An update statement went through on an incident that is closed and
\* carries a technician: it was assigned, closed, and touched again.
C2_Witness ==
    \E c \in Racers :
        /\ result[c].op \in {"asignar", "cerrar"}
        /\ result[c].stmt = "ok"
        /\ result[c].affected_rows = 0
        /\ result[c].id \in Rows
        /\ incidencias[result[c].id].estado = "cerrada"
        /\ incidencias[result[c].id].tecnico_id # NULL

\* ---------------------------------------------------------------- C3
\* C3 as stated: of the update statements of calls that overlap on one
\* incident, at most one affects 1 row and every other one affects 0: a
\* statement that ran after another one had changed the row affects 0.
C3_AtMostOneAffected ==
    \A c \in Racers :
        (result[c].stmt = "ok" /\ result[c].before # {}) => result[c].affected_rows = 0

\* C3, amended: of the update statements of calls that overlap on one
\* incident, at most one cerrar_incidencia statement affects 1 row, and every
\* statement that runs after it affects 0 rows (asignar_tecnico statements
\* that run before any close may each affect 1 row).
C3_AtMostOneClose ==
    \A c \in Racers :
        (result[c].stmt = "ok" /\ "cerrar" \in result[c].before)
            => result[c].affected_rows = 0

\* Two calls overlapped on one incident, one of them a close that won: the
\* other one, a close or an assignment, then ran its statement.
C3_Witness ==
    \E c \in Racers, o \in {"asignar", "cerrar"} :
        /\ result[c].op = o
        /\ result[c].stmt = "ok"
        /\ "cerrar" \in result[c].before
        /\ \E d \in Racers \ {c} :
              /\ result[d].op = "cerrar" /\ result[d].affected_rows = 1
              /\ result[d].id = result[c].id

\* ---------------------------------------------------------------- C4
\* C4: cerrar_incidencia on an existing incident that is 'abierta' or
\* 'en_proceso' returns 1 and leaves it 'cerrada' with fecha_cierre set and
\* not before fecha_apertura.
C4_CerrarReturnsOne ==
    [][\A c \in Callers :
          LET k == call[c]  id == k.incidencia_id
          IN  (StatementRan(c) /\ k.op = "cerrar" /\ Open(incidencias, id))
                => /\ Returns(c, 1)
                   /\ incidencias'[id].estado = "cerrada"
                   /\ incidencias'[id].fecha_cierre # NULL
                   /\ incidencias'[id].fecha_cierre >= incidencias'[id].fecha_apertura
      ]_vars

\* ---------------------------------------------------------------- C5
\* C5: cerrar_incidencia on an incident that is already 'cerrada' or does not
\* exist returns 0, raises nothing and leaves every incident unchanged.
C5_CerrarNoOp ==
    [][\A c \in Callers :
          LET k == call[c]  id == k.incidencia_id
          IN  (StatementRan(c) /\ k.op = "cerrar" /\ ~Open(incidencias, id))
                => /\ Returns(c, 0)
                   /\ incidencias' = incidencias
      ]_vars

\* ---------------------------------------------------------------- C6
\* C6: asignar_tecnico on an incident that is 'cerrada' or does not exist
\* returns 0, raises nothing and leaves every incident unchanged.
C6_AsignarNoOp ==
    [][\A c \in Callers :
          LET k == call[c]  id == k.incidencia_id
          IN  (StatementRan(c) /\ k.op = "asignar" /\ ~Open(incidencias, id))
                => /\ Returns(c, 0)
                   /\ incidencias' = incidencias
      ]_vars

\* ---------------------------------------------------------------- C7
\* C7: asignar_tecnico on an existing incident that is 'abierta' or
\* 'en_proceso' returns 1, leaves it 'en_proceso' with the given tecnico_id,
\* and changes no other field and no other incident.
C7_AsignarReturnsOne ==
    [][\A c \in Callers :
          LET k == call[c]  id == k.incidencia_id
          IN  (StatementRan(c) /\ k.op = "asignar" /\ Open(incidencias, id))
                => /\ Returns(c, 1)
                   /\ DOMAIN incidencias' = Rows
                   /\ incidencias'[id] =
                        [incidencias[id] EXCEPT !.tecnico_id = k.tecnico_id,
                                                !.estado = "en_proceso"]
                   /\ \A j \in Rows \ {id} : incidencias'[j] = incidencias[j]
      ]_vars

\* ---------------------------------------------------------------- C8
\* C8: crear_incidencia with valid arguments returns exactly 1 and adds
\* exactly one incident: 'abierta', no technician, no fecha_cierre,
\* fecha_apertura set, the given equipo_id and prioridad, the trimmed
\* description; the incidents that existed are unchanged.
C8_CrearReturnsOne ==
    [][\A c \in Callers :
          LET k == call[c]  n == Len(incidencias) + 1
          IN  (StatementRan(c) /\ k.op = "crear")
                => /\ Returns(c, 1)
                   /\ Len(incidencias') = n
                   /\ SubSeq(incidencias', 1, n - 1) = incidencias
                   /\ incidencias'[n].estado = "abierta"
                   /\ incidencias'[n].tecnico_id = NULL
                   /\ incidencias'[n].fecha_cierre = NULL
                   /\ incidencias'[n].fecha_apertura = now'
                   /\ incidencias'[n].equipo_id = k.equipo_id
                   /\ incidencias'[n].prioridad = k.prioridad
                   /\ incidencias'[n].descripcion = strip(k.descripcion)
      ]_vars

\* ---------------------------------------------------------------- C9
NotPositiveInteger(a) == ~a.isint \/ a.v < 1
Blank(d) == \A i \in 1 .. Len(d) : d[i] \in Whitespace
UnknownPrioridad(p) == p \notin {"baja", "media", "alta"}

\* The call of c ends in ValueError with no statement issued and nothing
\* left to execute, and the table is as it was.
Rejected(c) ==
    /\ result'[c].kind = "ValueError"
    /\ result'[c].stmt = "none"
    /\ pc'[c] = "idle"
    /\ incidencias' = incidencias

\* C9: crear_incidencia with an equipo_id that is no positive integer, a
\* blank description or an unknown prioridad, and asignar_tecnico /
\* cerrar_incidencia with an id argument that is no positive integer, raise
\* ValueError without issuing a statement; the table is unchanged.  (Every
\* step that is such a call is a rejection: a step of an idle caller that is
\* no rejection is no call with an invalid argument.)
C9_ValidationFailsFast ==
    [][\A c \in Callers :
          (pc[c] = "idle" /\ ~Rejected(c)) =>
            /\ \A e \in ArgsEquipoArgs, d \in ArgsDescArgs, p \in ArgsPrioridadArgs :
                  (NotPositiveInteger(e) \/ Blank(d) \/ UnknownPrioridad(p))
                      => ~CrearIncidenciaWith(c, e, d, p)
            /\ \A i \in ArgsIncidenciaArgs, t \in ArgsTecnicoArgs :
                  (NotPositiveInteger(i) \/ NotPositiveInteger(t))
                      => ~AsignarTecnicoWith(c, i, t)
            /\ \A i \in ArgsIncidenciaArgs :
                  NotPositiveInteger(i) => ~CerrarIncidenciaWith(c, i)
      ]_vars

\* A call was rejected while the table held incidents.
C9_Witness ==
    \E c \in Callers :
        /\ result[c].kind = "ValueError"
        /\ result[c].stmt = "none"
        /\ incidencias # <<>>

\* ---------------------------------------------------------------- C10
\* C10: when the store fails on the write statement, execute calls rollback
\* on the session before the error reaches the caller, the error that
\* surfaces is the store error, and the persisted incidents are unchanged.
C10_RollbackThenStoreError ==
    [][\A c \in Callers :
          (Executes(c) /\ result'[c].stmt = "error")
            => /\ result'[c].rollbacks = 1
               /\ result'[c].kind = "StoreError"
               /\ incidencias' = incidencias
      ]_vars

\* ---------------------------------------------------------------- C11
\* C11: when the store runs the write statement without error, execute
\* commits exactly once and then hands the affected-row count back: nothing
\* is raised after the commit.
C11_CommitThenReturn ==
    [][\A c \in Callers :
          StatementRan(c)
            => /\ result'[c].commits = 1
               /\ result'[c].kind = "return"
               /\ result'[c].value = result'[c].affected_rows
      ]_vars

\* ---------------------------------------------------------------- C12
\* The step in which the listing op of caller c got its rows from the store.
Lists(c, op) ==
    /\ pc[c] = "idle"
    /\ result'[c] # result[c]
    /\ result'[c].op = op
    /\ result'[c].stmt = "ok"

Ids(rows) == {rows[k].id : k \in DOMAIN rows}

\* One row per id, each the persisted incident of that id.
OnePerIncident(rows) ==
    /\ Cardinality(Ids(rows)) = Len(rows)
    /\ \A k \in DOMAIN rows : rows[k] = Fila(incidencias, rows[k].id)

PriorityRank(p) == CASE p = "alta" -> 1 [] p = "media" -> 2 [] p = "baja" -> 3

\* C12: listar_incidencias_activas returns exactly the incidents whose estado
\* is not 'cerrada', a row A before a row B only if rank(A) <= rank(B)
\* (alta=1, media=2, baja=3) and, at equal rank, A.fecha_apertura <=
\* B.fecha_apertura.
C12_ListarActivas ==
    [][\A c \in Callers :
          Lists(c, "listar_activas") =>
            LET r == result'[c].rows
            IN  /\ result'[c].kind = "return"
                /\ Ids(r) = {i \in Rows : incidencias[i].estado # "cerrada"}
                /\ OnePerIncident(r)
                /\ \A j, k \in DOMAIN r :
                      j < k =>
                        /\ PriorityRank(r[j].prioridad) <= PriorityRank(r[k].prioridad)
                        /\ PriorityRank(r[j].prioridad) = PriorityRank(r[k].prioridad)
                              => r[j].fecha_apertura <= r[k].fecha_apertura
      ]_vars

\* ---------------------------------------------------------------- C13
\* C13: listar_incidencias_sin_tecnico returns exactly the incidents with
\* tecnico_id NULL and estado not 'cerrada', in ascending fecha_apertura
\* whatever their priority.
C13_ListarSinTecnico ==
    [][\A c \in Callers :
          Lists(c, "listar_sin_tecnico") =>
            LET r == result'[c].rows
            IN  /\ result'[c].kind = "return"
                /\ Ids(r) = {i \in Rows : /\ incidencias[i].tecnico_id = NULL
                                          /\ incidencias[i].estado # "cerrada"}
                /\ OnePerIncident(r)
                /\ \A j, k \in DOMAIN r :
                      j < k => r[j].fecha_apertura <= r[k].fecha_apertura
      ]_vars

\* ---------------------------------------------------------------- C14
\* C14: the rows of detalle_incidencias_join come ordered by estado, then by
\* priority rank descending (within one estado 'baja' before 'alta'), then by
\* fecha_apertura ascending.  Stated on the rows the query yields.
C14_DetalleOrden ==
    [][\A c \in Callers :
          Lists(c, "detalle") =>
            LET r == result'[c].rows
            IN  \A j, k \in DOMAIN r :
                   j < k =>
                     /\ EstadoCollation(r[j].estado) <= EstadoCollation(r[k].estado)
                     /\ r[j].estado = r[k].estado =>
                          /\ PriorityRank(r[j].prioridad) >= PriorityRank(r[k].prioridad)
                          /\ r[j].prioridad = r[k].prioridad
                                => r[j].fecha_apertura <= r[k].fecha_apertura
      ]_vars

\* ---------------------------------------------------------------- C15
\* C15: detalle_incidencias_join returns exactly one row per incident whose
\* equipo_id is the id of an equipment row and none for any other incident;
\* the row of an incident with tecnico_id NULL has a NULL technician name,
\* the row of an incident assigned to an existing technician has that
\* technician's nombre.
C15_DetalleJoin ==
    [][\A c \in Callers :
          Lists(c, "detalle") =>
            LET r == result'[c].rows
            IN  /\ result'[c].kind = "return"
                /\ Ids(r) = {i \in Rows : incidencias[i].equipo_id \in DOMAIN Equipos}
                /\ Cardinality(Ids(r)) = Len(r)
                /\ \A k \in DOMAIN r :
                      LET inc == incidencias[r[k].id]
                      IN  /\ inc.tecnico_id = NULL => r[k].tecnico = NullNombre
                          /\ inc.tecnico_id \in DOMAIN Tecnicos
                                => r[k].tecnico = Tecnicos[inc.tecnico_id].nombre
      ]_vars

\* ---------------------------------------------------------------- C16
\* C16: an incident whose tecnico_id is not NULL keeps a non-NULL tecnico_id
\* in every later state; no step, closing included, clears it.
C16_TecnicoNeverCleared ==
    [][\A i \in Rows :
          incidencias[i].tecnico_id # NULL
            => /\ i \in DOMAIN incidencias'
               /\ incidencias'[i].tecnico_id # NULL
      ]_vars

\* A close went through on an incident that had a technician, and the
\* incident still carries one.
C16_Witness ==
    \E c \in Racers :
        /\ result[c].op = "cerrar"
        /\ result[c].affected_rows = 1
        /\ result[c].id \in Rows
        /\ incidencias[result[c].id].tecnico_id # NULL

\* ---------------------------------------------------------------- C17
\* C17: fecha_apertura is set once, by the INSERT of crear_incidencia, to the
\* instant of that statement; no later step changes it, whether an
\* asignar_tecnico / cerrar_incidencia statement affects 1 row or 0.
C17_FechaAperturaImmutable ==
    [][/\ \A i \in Rows :
             /\ i \in DOMAIN incidencias'
             /\ incidencias'[i].fecha_apertura = incidencias[i].fecha_apertura
       /\ \A i \in DOMAIN incidencias' \ Rows :
             incidencias'[i].fecha_apertura = now'
      ]_vars

\* On one incident an update affected 1 row and another one affected 0, the
\* close later than the opening.
C17_Witness ==
    \E c \in Racers, d \in Racers :
        /\ c # d
        /\ result[c].op \in {"asignar", "cerrar"} /\ result[c].affected_rows = 1
        /\ result[d].op \in {"asignar", "cerrar"} /\ result[d].affected_rows = 0
        /\ result[c].id = result[d].id
        /\ result[c].id \in Rows
        /\ incidencias[result[c].id].fecha_cierre > incidencias[result[c].id].fecha_apertura

\* ---------------------------------------------------------------- C18
\* C18: no step removes an incident: the set of ids never loses an element.
\* A crear_incidencia whose statement goes through adds exactly one id, and
\* every other step (asignar_tecnico, cerrar_incidencia, the three listings,
\* a rejected or failed call) leaves the set of ids as it was.
C18_NoDelete ==
    [][/\ Rows \subseteq DOMAIN incidencias'
       /\ \A c \in Callers :
             (StatementRan(c) /\ call[c].op = "crear")
                => Len(incidencias') = Len(incidencias) + 1
       /\ DOMAIN incidencias' # Rows
             => \E c \in Callers : StatementRan(c) /\ call[c].op = "crear"
      ]_vars

\* The join was read from a full table that holds a closed incident: the
\* creations, an update and a listing have all run.
C18_Witness ==
    \E c \in Callers :
        /\ result[c].op = "detalle"
        /\ result[c].stmt = "ok"
        /\ Len(incidencias) = MaxIncQuery
        /\ Len(result[c].rows) = MaxIncQuery
        /\ \E i \in Rows : incidencias[i].estado = "cerrada"

\* ---------------------------------------------------------------- C19
\* A freshly created incident: open, never assigned.
Fresh(id) ==
    /\ id \in Rows
    /\ incidencias[id].estado = "abierta"
    /\ incidencias[id].tecnico_id = NULL

\* C19: along create, assign, close, close again of one incident the calls
\* return 1, 1, 1, 0: crear_incidencia returns 1; asignar_tecnico on the
\* fresh incident returns 1 and leaves it 'en_proceso'; cerrar_incidencia
\* then returns 1 and leaves it 'cerrada' with fecha_cierre set; a second
\* cerrar_incidencia returns 0.
C19_Lifecycle ==
    [][\A c \in Callers :
          LET k == call[c]  id == k.incidencia_id
          IN  StatementRan(c) =>
                /\ k.op = "crear" => Returns(c, 1)
                /\ (k.op = "asignar" /\ Fresh(id))
                      => /\ Returns(c, 1)
                         /\ incidencias'[id].estado = "en_proceso"
                /\ (k.op = "cerrar" /\ id \in Rows /\ incidencias[id].estado = "en_proceso")
                      => /\ Returns(c, 1)
                         /\ incidencias'[id].estado = "cerrada"
                         /\ incidencias'[id].fecha_cierre # NULL
                /\ (k.op = "cerrar" /\ id \in Rows /\ incidencias[id].estado = "cerrada")
                      => Returns(c, 0)
      ]_vars

\* ---------------------------------------------------------------- C20
\* C20: in every reachable state an 'en_proceso' incident has a tecnico_id
\* and an 'abierta' incident has none; so every row that
\* listar_incidencias_sin_tecnico gets is an 'abierta' incident.
C20_TecnicoMatchesEstado ==
    /\ \A i \in Rows :
          /\ incidencias[i].estado = "en_proceso" => incidencias[i].tecnico_id # NULL
          /\ incidencias[i].estado = "abierta" => incidencias[i].tecnico_id = NULL
    /\ \A c \in Callers :
          result[c].op = "listar_sin_tecnico"
            => \A k \in DOMAIN result[c].rows : result[c].rows[k].estado = "abierta"

\* listar_incidencias_sin_tecnico got an incident while another one, in
\* process, was left out.
C20_Witness ==
    \E c \in Callers :
        /\ result[c].op = "listar_sin_tecnico"
        /\ result[c].rows # <<>>
        /\ \E i \in Rows \ Ids(result[c].rows) : incidencias[i].estado = "en_proceso"

====
